---- MODULE Spec2Model ----
(***************************************************************************)
(* Model of scrapy/xpath/selector.py: XPathSelector, XPathSelectorList and *)
(* the two variants XmlXPathSelector / HtmlXPathSelector.                  *)
(*                                                                         *)
(* The parsed document is the tree of                                      *)
(*     <b href=''><b/></b>                                                 *)
(* (document node, element b1 with the attribute href of empty value, and  *)
(* element b2 inside b1).  Every Libxml2Document built in the model holds  *)
(* a tree of this shape, so a node is named by its position and the        *)
(* Libxml2Document it belongs to is the one of the selector.               *)
(***************************************************************************)
EXTENDS Integers, Sequences, FiniteSets, TLC

\* ------------------------------------------------------------------ bounds
MaxRoots == 2       \* root selectors the caller constructs
MaxList == 2        \* longest XPathSelectorList the caller keeps
MaxDocs == 2        \* Libxml2Document objects built in one run

\* ------------------------------------------------------------------ values
None == "None"

\* The objects a caller passes as `response`; 0 stands for Python's None.
Responses == {1}
NoResponse == 0
ResponseIds == 1..(1 + MaxRoots)

Classes == {"XPathSelector", "XmlXPathSelector", "HtmlXPathSelector"}
\* The classes the caller instantiates.
Variants == {"XmlXPathSelector", "HtmlXPathSelector"}

\* xmlDoc_factory of each class (lines 26, 140, 145).
xmlDoc_factory(cls) ==
    IF cls = "XmlXPathSelector" THEN "xmlDoc_from_xml" ELSE "xmlDoc_from_html"

Factories == {"xmlDoc_from_xml", "xmlDoc_from_html"}

\* Nodes: kind is doc / elem / attr / text for libxml2 nodes, str / num for
\* the scalars xpathEval returns, unset for a missing attribute.
Node(k, v) == [kind |-> k, v |-> v]
DocNode == Node("doc", "root")
NodeHref == Node("attr", "href")
NodeB1 == Node("elem", "b1")
NodeB2 == Node("elem", "b2")
Unset == Node("unset", "")
TreeNodes == {DocNode, NodeHref, NodeB1, NodeB2}

ParentOf(n) ==
    IF n = NodeB1 THEN <<DocNode>>
    ELSE IF n \in {NodeHref, NodeB2} THEN <<NodeB1>>
    ELSE <<>>

\* The XPath expressions the caller uses; the last one is malformed.
Malformed == "//b["
Queries == {"//b", "..", "//@href", "count(*)", Malformed}
\* The expressions that select nodes.
NodeQueries == {"//b", "..", "//@href"}

\* libxml2's xpathContext.xpathEval(xpath) with `ctx` as the context node:
\* a node-set, a scalar, or xpathError.
NodeSet(s) == [kind |-> "nodeset", nodes |-> s, val |-> Unset]
Scalar(v) == [kind |-> "scalar", nodes |-> <<>>, val |-> v]
XPathError == [kind |-> "xpathError", nodes |-> <<>>, val |-> Unset]
NoResult == [kind |-> "none", nodes |-> <<>>, val |-> Unset]

xpathEval(ctx, xpath) ==
    IF xpath = Malformed THEN XPathError
    ELSE IF xpath = "//b" THEN NodeSet(<<NodeB1, NodeB2>>)
    ELSE IF xpath = "//@href" THEN NodeSet(<<NodeHref>>)
    ELSE IF xpath = ".." THEN NodeSet(ParentOf(ctx))
    ELSE IF xpath = "self::text()"
         THEN NodeSet(IF ctx.kind = "text" THEN <<ctx>> ELSE <<>>)
    ELSE Scalar(Node("num", IF ctx = DocNode THEN "1.0"
                            ELSE IF ctx = NodeB1 THEN "1.0" ELSE "0.0"))

\* hasattr(xpath_result, '__iter__') (line 57): true of the list xpathEval
\* returns for a node-set, false of a str, float or bool.
HasIter(res) == res.kind = "nodeset"

\* hasattr(self.xmlNode, 'xpathEval') (line 50).
HasXPathEvalScalarToo(node) == node.kind # "unset"
HasXPathEval(node) == node.kind \in {"doc", "elem", "attr", "text"}

\* ------------------------------------------------------------------ selectors
Selector(cls, doc, node, expr, response) ==
    [cls |-> cls, doc |-> doc, node |-> node, expr |-> expr, response |-> response]
NoSelector == Selector(None, 0, Unset, None, NoResponse)

\* XPathSelector.extract (lines 72-91), by the runtime type of xmlNode.
extract(sel) ==
    IF sel.node.kind = "str" THEN sel.node.v
    ELSE IF sel.node.kind = "doc" THEN "<b href=''><b/></b>"
    ELSE IF sel.node.kind = "attr" THEN ""
    ELSE IF sel.node = NodeB1 THEN "<b href=''><b/></b>"
    ELSE IF sel.node = NodeB2 THEN "<b/>"
    ELSE IF sel.node.kind = "text" THEN "x"
    ELSE sel.node.v

\* XPathSelector.__nonzero__ (lines 104-105).
nonzero(sel) == extract(sel) # ""

\* ------------------------------------------------------------------ documents
\* The part of the program state the methods read and write, threaded
\* through the operators below:
\*   docs   the Libxml2Document objects built so far: the factory that parsed
\*          each, the response it was parsed from, and the context node of
\*          its xpathContext;
\*   cache  the Libxml2Document each response caches per factory (0: none);
\*   nresp  the TextResponse objects created so far;
\*   evals  the evaluations made by the call in progress: the xmlNode of the
\*          selector queried and the context node xpathEval ran with.
State(docs, cache, nresp, evals) ==
    [docs |-> docs, cache |-> cache, nresp |-> nresp, evals |-> evals]

\* Libxml2Document(response, factory=...): parses and owns a new tree.
Libxml2Document(st, response, factory) ==
    [st |-> [st EXCEPT !.docs = Append(st.docs,
                 [factory |-> factory, response |-> response, ctxNode |-> Unset])],
     doc |-> Len(st.docs) + 1]

\* response.getlibxml2doc(factory=...): the cached document, built on first use.
getlibxml2doc(st, response, factory) ==
    IF st.cache[response][factory] # 0
    THEN [st |-> st, doc |-> st.cache[response][factory]]
    ELSE LET b == Libxml2Document(st, response, factory)
         IN [st |-> [b.st EXCEPT !.cache[response][factory] = b.doc], doc |-> b.doc]

\* lines 33-37: the cached version first, Libxml2Document on AttributeError.
\* `accessor` tells whether Response carries getlibxml2doc.
AcquireDocNoCache(st, response, factory, accessor) ==
    Libxml2Document(st, response, factory)
AcquireDoc(st, response, factory, accessor) ==
    IF accessor THEN getlibxml2doc(st, response, factory)
    ELSE Libxml2Document(st, response, factory)

\* XPathSelector.__init__ (lines 28-45).  `if parent:` is parent.__nonzero__().
SelectorInit(st, accessor, cls, response, text, node, parent, expr) ==
    IF parent # NoSelector /\ nonzero(parent)
    THEN [st |-> st, sel |-> Selector(cls, parent.doc, node, expr, response)]
    ELSE IF response # NoResponse
    THEN LET a == AcquireDoc(st, response, xmlDoc_factory(cls), accessor)
         IN [st |-> a.st, sel |-> Selector(cls, a.doc, DocNode, expr, response)]
    ELSE IF text # ""
    THEN LET r == 1 + st.nresp + 1
             b == Libxml2Document([st EXCEPT !.nresp = @ + 1], r, xmlDoc_factory(cls))
         IN [st |-> b.st, sel |-> Selector(cls, b.doc, DocNode, expr, r)]
    ELSE [st |-> st, sel |-> Selector(cls, 0, Unset, expr, response)]

\* self.doc.xpathContext.setContextNode(self.xmlNode) (line 51).
setContextNodeSkipped(st, doc, node) == st
setContextNode(st, doc, node) == [st EXCEPT !.docs[doc].ctxNode = node]

\* self.doc.xpathContext.xpathEval(xpath) (line 53): evaluates with whatever
\* context node the shared xpathContext holds at that moment.
ContextEval(st, self, xpath) ==
    LET ctx == st.docs[self.doc].ctxNode
    IN [st |-> [st EXCEPT !.evals = Append(@, [node |-> self.node, ctx |-> ctx])],
        res |-> xpathEval(ctx, xpath)]

\* What a call hands back to its caller: a list, a text, texts, or an exception.
Ret(kind, expr) == [kind |-> kind, expr |-> expr]
Returned == Ret("list", None)

\* except libxml2.xpathError: raise ValueError("Invalid XPath: %s" % xpath)
\* (lines 54-55).
OnXPathErrorSwallow(xpath) == Returned
OnXPathError(xpath) == Ret("ValueError", xpath)

\* cls = type(self) (line 56).
TypeOfBase(self) == "XPathSelector"
TypeOf(self) == self.cls

\* The list comprehension of lines 58-59 (and the single element of lines
\* 61-62): one cls(node=node, parent=self, expr=xpath, response=self.response)
\* per node, in the order of xpath_result.
RECURSIVE WrapNodes(_, _, _, _, _)
WrapNodes(st, accessor, self, xpath, nodes) ==
    IF nodes = <<>> THEN [st |-> st, list |-> <<>>]
    ELSE LET c == SelectorInit(st, accessor, TypeOf(self), self.response, "",
                               Head(nodes), self, xpath)
             rest == WrapNodes(c.st, accessor, self, xpath, Tail(nodes))
         IN [st |-> rest.st, list |-> <<c.sel>> \o rest.list]

\* XPathSelector.x (lines 47-64).
x(st, accessor, self, xpath) ==
    IF self.node = Unset
    THEN [st |-> st, ret |-> Ret("AttributeError", "xmlNode"), list |-> <<>>,
          res |-> NoResult]
    ELSE IF HasXPathEval(self.node)
    THEN LET e == ContextEval(setContextNode(st, self.doc, self.node), self, xpath)
         IN IF e.res.kind = "xpathError"
            THEN [st |-> e.st, ret |-> OnXPathError(xpath), list |-> <<>>,
                  res |-> e.res]
            ELSE LET w == WrapNodes(e.st, accessor, self, xpath,
                                    IF HasIter(e.res) THEN e.res.nodes
                                    ELSE <<e.res.val>>)
                 IN [st |-> w.st, ret |-> Returned, list |-> w.list, res |-> e.res]
    ELSE [st |-> st, ret |-> Returned, list |-> <<>>, res |-> NoResult]

\* XPathSelectorList.x (lines 119-122): x.x(xpath) for each element in turn,
\* flattened; an exception of an element ends the call.
RECURSIVE ListX(_, _, _, _)
ListX(st, accessor, list, xpath) ==
    IF list = <<>> THEN [st |-> st, ret |-> Returned, list |-> <<>>]
    ELSE LET h == x(st, accessor, Head(list), xpath)
         IN IF h.ret.kind # "list"
            THEN [st |-> h.st, ret |-> h.ret, list |-> <<>>]
            ELSE LET t == ListX(h.st, accessor, Tail(list), xpath)
                 IN [st |-> t.st, ret |-> t.ret,
                     list |-> IF t.ret.kind = "list" THEN h.list \o t.list ELSE <<>>]

\* XPathSelector.extract_unquoted (lines 93-98); getContent() of a text node
\* of the model would be "x".
extract_unquoted(st, accessor, self) ==
    LET q == x(st, accessor, self, "self::text()")
    IN IF q.ret.kind # "list" THEN [st |-> q.st, ret |-> q.ret, out |-> <<>>]
       ELSE [st |-> q.st, ret |-> Ret("text", None),
             out |-> <<IF q.list # <<>> THEN "x" ELSE "">>]

\* extract_regex(regex, text, 'utf-8') for the regex "href": every match in text.
extract_regex(regex, text) ==
    IF text = "<b href=''><b/></b>" THEN <<"href">> ELSE <<>>

\* XPathSelector.re (lines 67-70).
re(self, regex) == extract_regex(regex, extract(self))

\* ------------------------------------------------------------------ state
VARIABLES
    roots,      \* the root selectors the caller constructed, each with the
                \* arguments it was constructed from
    cur,        \* the XPathSelectorList the caller holds (the last one returned)
    docs,       \* the Libxml2Document objects (see State)
    cache,      \* the documents cached on the responses (see State)
    nresp,      \* TextResponse objects created so far
    accessor,   \* whether Response carries getlibxml2doc
    lastCall,   \* the last call the caller made and what it observed
    thr,        \* the threads running XPathSelector.x step by step
    serialized, \* whether the caller serializes the queries of the threads
    holder      \* the thread the caller lets query (0: none)

vars == <<roots, cur, docs, cache, nresp, accessor, lastCall, thr, serialized, holder>>

Texts == {"", "<b href=''><b/></b>"}
Regexes == {"href"}
Threads == {1, 2}

Call(op, self, xpath, arg, evals, res, ret, out) ==
    [op |-> op, self |-> self, xpath |-> xpath, arg |-> arg, evals |-> evals,
     res |-> res, ret |-> ret, out |-> out]
NoCall == Call("none", NoSelector, None, <<>>, <<>>, NoResult, Ret("none", None), <<>>)

\* A thread inside XPathSelector.x: where it is (idle, set: before line 51,
\* eval: before line 53, wrap: before line 56, done: returned or raised), the
\* selector and expression of the call, the context node its xpathEval ran
\* with, the result of xpathEval, and what the call returned.
Thread(pc, self, xpath, ctx, res, ret, list) ==
    [pc |-> pc, self |-> self, xpath |-> xpath, ctx |-> ctx, res |-> res, ret |-> ret,
     list |-> list]
IdleThread == Thread("idle", NoSelector, None, Unset, NoResult, Ret("none", None), <<>>)

EmptyCache == [r \in ResponseIds |-> [f \in Factories |-> 0]]

\* The selectors the caller can reach: the roots, then the elements of cur.
Held == [i \in 1..Len(roots) |-> roots[i].sel] \o cur

Cur == State(docs, cache, nresp, <<>>)

ThreadsIdle ==
    /\ thr = [t \in Threads |-> IdleThread]
    /\ serialized = FALSE
    /\ holder = 0

\* The caller keeps what fits the bounds of the model.
Fits(st, list) == Len(st.docs) <= MaxDocs /\ Len(list) <= MaxList

\* cls(response) or cls(text=text): a root selector, kept by the caller.
Construct(cls, response, text) ==
    LET c == SelectorInit(Cur, accessor, cls, response, text, Unset, NoSelector, None)
    IN /\ Fits(c.st, <<>>)
       /\ roots' = Append(roots, [sel |-> c.sel,
                                  from |-> IF response # NoResponse THEN "response" ELSE "text",
                                  text |-> text])
       /\ docs' = c.st.docs
       /\ cache' = c.st.cache
       /\ nresp' = c.st.nresp

\* XmlXPathSelector(response) / HtmlXPathSelector(response)
NewFromResponse(cls, response) ==
    /\ Len(roots) < MaxRoots
    /\ Construct(cls, response, "")
    /\ UNCHANGED <<cur, accessor, lastCall, thr, serialized, holder>>

\* XmlXPathSelector(text=text) / HtmlXPathSelector(text=text)
NewFromText(cls, text) ==
    /\ Len(roots) < MaxRoots
    /\ Construct(cls, NoResponse, text)
    /\ UNCHANGED <<cur, accessor, lastCall, thr, serialized, holder>>

\* sel.x(xpath) on a selector the caller holds; the caller keeps the list
\* returned, and holds no list after an exception.
Apply(r) ==
    /\ Fits(r.st, r.list)
    /\ cur' = IF r.ret.kind = "list" THEN r.list ELSE <<>>
    /\ docs' = r.st.docs
    /\ cache' = r.st.cache
    /\ nresp' = r.st.nresp

Query(k, xpath) ==
    /\ k \in 1..Len(Held)
    /\ LET r == x(Cur, accessor, Held[k], xpath)
       IN /\ Apply(r)
          /\ lastCall' = Call("x", Held[k], xpath, <<>>, r.st.evals, r.res, r.ret, <<>>)
    /\ UNCHANGED <<roots, accessor, thr, serialized, holder>>

\* cur.x(xpath) on the list the caller holds.
QueryList(xpath) ==
    /\ LET r == ListX(Cur, accessor, cur, xpath)
       IN /\ Apply(r)
          /\ lastCall' = Call("list.x", NoSelector, xpath, cur, r.st.evals, NoResult, r.ret, <<>>)
    /\ UNCHANGED <<roots, accessor, thr, serialized, holder>>

\* sel.extract() on a selector with a node: a text, and nothing changes.
Extract(k) ==
    /\ k \in 1..Len(Held)
    /\ Held[k].node # Unset
    /\ extract(Held[k]) \in {"", "<b/>", "<b href=''><b/></b>", "0.0", "1.0"}
    /\ UNCHANGED vars

\* sel.extract_unquoted()
ExtractUnquoted(k) ==
    /\ k \in 1..Len(Held)
    /\ LET r == extract_unquoted(Cur, accessor, Held[k])
       IN /\ Fits(r.st, <<>>)
          /\ docs' = r.st.docs
          /\ cache' = r.st.cache
          /\ nresp' = r.st.nresp
          /\ lastCall' = Call("extract_unquoted", NoSelector, "self::text()", <<>>, r.st.evals,
                              NoResult, r.ret, r.out)
    /\ UNCHANGED <<roots, cur, accessor, thr, serialized, holder>>

\* sel.re(regex) on a selector with a node: the matches, and nothing changes.
Re(k, regex) ==
    /\ k \in 1..Len(Held)
    /\ Held[k].node # Unset
    /\ re(Held[k], regex) \in {<<>>, <<"href">>}
    /\ UNCHANGED vars

\* ------------------------------------------------------------------ Spec
\* One root selector, constructed from a response or from a text, and every
\* call the caller can then make on it and on what the calls return.
Init ==
    /\ accessor \in BOOLEAN
    /\ \E cls \in Variants, response \in Responses \cup {NoResponse} :
         LET c == SelectorInit(State(<<>>, EmptyCache, 0, <<>>), accessor, cls, response,
                               IF response # NoResponse THEN "" ELSE "<b href=''><b/></b>",
                               Unset, NoSelector, None)
         IN /\ roots = <<[sel |-> c.sel,
                          from |-> IF response # NoResponse THEN "response" ELSE "text",
                          text |-> IF response # NoResponse THEN "" ELSE "<b href=''><b/></b>"]>>
            /\ docs = c.st.docs
            /\ cache = c.st.cache
            /\ nresp = c.st.nresp
    /\ cur = <<>>
    /\ lastCall = NoCall
    /\ ThreadsIdle

Next ==
    \/ \E k \in 1..(1 + MaxList), xpath \in Queries : Query(k, xpath)
    \/ \E xpath \in Queries : QueryList(xpath)
    \/ \E k \in 1..(1 + MaxList) : Extract(k)
    \/ \E k \in 1..(1 + MaxList) : ExtractUnquoted(k)
    \/ \E k \in 1..(1 + MaxList), regex \in Regexes : Re(k, regex)

Spec == Init /\ [][Next]_vars

\* ------------------------------------------------------------------ SpecRoots
\* Responses that carry getlibxml2doc: any number of root selectors, from the
\* response or from texts, and the queries on them and on their results.
InitRoots ==
    /\ accessor = TRUE
    /\ roots = <<>>
    /\ cur = <<>>
    /\ docs = <<>>
    /\ cache = EmptyCache
    /\ nresp = 0
    /\ lastCall = NoCall
    /\ ThreadsIdle

QueryHeld(k, xpath) ==
    /\ k \in 1..Len(Held)
    /\ Apply(x(Cur, accessor, Held[k], xpath))
    /\ UNCHANGED <<roots, accessor, lastCall, thr, serialized, holder>>

QueryCur(xpath) ==
    /\ Apply(ListX(Cur, accessor, cur, xpath))
    /\ UNCHANGED <<roots, accessor, lastCall, thr, serialized, holder>>

NextRoots ==
    \/ \E cls \in Variants, response \in Responses : NewFromResponse(cls, response)
    \/ \E cls \in Variants, text \in Texts : NewFromText(cls, text)
    \/ \E k \in 1..(MaxRoots + MaxList), xpath \in NodeQueries : QueryHeld(k, xpath)
    \/ \E xpath \in NodeQueries : QueryCur(xpath)

SpecRoots == InitRoots /\ [][NextRoots]_vars

\* ------------------------------------------------------------------ SpecThreads
\* Two threads call x on the selectors of one response, each call running
\* line by line.  With `serialized` the caller lets one call run at a time.
InitThreads ==
    /\ accessor \in BOOLEAN
    /\ serialized \in BOOLEAN
    /\ \E cls \in Variants, xpath \in {"//b", "//@href"} :
         LET c == SelectorInit(State(<<>>, EmptyCache, 0, <<>>), accessor, cls, 1, "",
                               Unset, NoSelector, None)
             r == x(c.st, accessor, c.sel, xpath)
         IN /\ roots = <<[sel |-> c.sel, from |-> "response", text |-> ""]>>
            /\ cur = r.list
            /\ docs = r.st.docs
            /\ cache = r.st.cache
            /\ nresp = r.st.nresp
    /\ lastCall = NoCall
    /\ thr = [t \in Threads |-> IdleThread]
    /\ holder = 0

\* line 50: the call starts; a node without xpathEval returns the empty list.
TCall(t, k, xpath) ==
    /\ thr[t].pc \in {"idle", "done"}
    /\ serialized => holder = 0
    /\ k \in 1..Len(Held)
    /\ IF HasXPathEval(Held[k].node)
       THEN /\ thr' = [thr EXCEPT ![t] = Thread("set", Held[k], xpath, Unset, NoResult,
                                                Ret("none", None), <<>>)]
            /\ holder' = IF serialized THEN t ELSE 0
       ELSE /\ thr' = [thr EXCEPT ![t] = Thread("done", Held[k], xpath, Unset, NoResult,
                                                Returned, <<>>)]
            /\ holder' = holder
    /\ UNCHANGED <<roots, cur, docs, cache, nresp, accessor, lastCall, serialized>>

\* line 51
TSetContextNode(t) ==
    /\ thr[t].pc = "set"
    /\ docs' = setContextNode(Cur, thr[t].self.doc, thr[t].self.node).docs
    /\ thr' = [thr EXCEPT ![t].pc = "eval"]
    /\ UNCHANGED <<roots, cur, cache, nresp, accessor, lastCall, serialized, holder>>

\* lines 52-55
TXPathEval(t) ==
    /\ thr[t].pc = "eval"
    /\ LET e == ContextEval(Cur, thr[t].self, thr[t].xpath)
       IN IF e.res.kind = "xpathError"
          THEN /\ thr' = [thr EXCEPT ![t].pc = "done", ![t].ctx = e.st.evals[1].ctx,
                                     ![t].res = e.res,
                                     ![t].ret = OnXPathError(thr[t].xpath)]
               /\ holder' = 0
          ELSE /\ thr' = [thr EXCEPT ![t].pc = "wrap", ![t].ctx = e.st.evals[1].ctx,
                                     ![t].res = e.res]
               /\ holder' = holder
    /\ UNCHANGED <<roots, cur, docs, cache, nresp, accessor, lastCall, serialized>>

\* lines 56-62
TWrap(t) ==
    /\ thr[t].pc = "wrap"
    /\ LET w == WrapNodes(Cur, accessor, thr[t].self, thr[t].xpath,
                          IF HasIter(thr[t].res) THEN thr[t].res.nodes
                          ELSE <<thr[t].res.val>>)
       IN /\ Fits(w.st, w.list)
          /\ docs' = w.st.docs
          /\ cache' = w.st.cache
          /\ nresp' = w.st.nresp
          /\ thr' = [thr EXCEPT ![t].pc = "done", ![t].ret = Returned, ![t].list = w.list]
    /\ holder' = 0
    /\ UNCHANGED <<roots, cur, accessor, lastCall, serialized>>

NextThreads ==
    \/ \E t \in Threads, k \in 1..(1 + MaxList), xpath \in Queries : TCall(t, k, xpath)
    \/ \E t \in Threads : TSetContextNode(t)
    \/ \E t \in Threads : TXPathEval(t)
    \/ \E t \in Threads : TWrap(t)

SpecThreads == InitThreads /\ [][NextThreads]_vars

\* ------------------------------------------------------------------ claims
TreeKinds == {"doc", "elem", "attr", "text"}
ScalarKinds == {"str", "num"}

\* The nodes an evaluation result stands for, in result order.
ResultNodes(res) == IF res.kind = "nodeset" THEN res.nodes ELSE <<res.val>>

\* The last call was sel.x(xpath) on a tree node, with a well-formed xpath,
\* and returned.
QueriedTreeNode ==
    /\ lastCall.op = "x"
    /\ lastCall.self.node.kind \in TreeKinds
    /\ lastCall.xpath # Malformed
    /\ lastCall.ret = Returned

\* C1: every selector S.x(q) returns, S over a tree node (an attribute of
\* empty value included) and q well-formed, has the Libxml2Document of S, the
\* node the evaluation produced, and q as its expr.
C1_SameDocEvaluatedNode ==
    QueriedTreeNode =>
        \A i \in 1..Len(cur) :
            /\ cur[i].doc = lastCall.self.doc
            /\ i <= Len(ResultNodes(lastCall.res))
            /\ cur[i].node = ResultNodes(lastCall.res)[i]
            /\ cur[i].expr = lastCall.xpath

\* C2 as stated: x(expr) with a malformed expr raises ValueError carrying expr,
\* whatever the node of the selector (tree node or raw scalar).
C2_MalformedAlwaysRaises ==
    (/\ lastCall.op = "x"
     /\ lastCall.xpath = Malformed
     /\ lastCall.self.node.kind \in TreeKinds \cup ScalarKinds)
        => lastCall.ret = Ret("ValueError", Malformed)

\* C2 amended: on a selector over a tree node, x(expr) with a malformed expr
\* raises ValueError carrying expr and returns no list.
C2_MalformedRaisesOnTreeNode ==
    (/\ lastCall.op = "x"
     /\ lastCall.xpath = Malformed
     /\ lastCall.self.node.kind \in TreeKinds)
        => lastCall.ret = Ret("ValueError", Malformed)

C2_Witness ==
    /\ lastCall.op = "x"
    /\ lastCall.xpath = Malformed
    /\ lastCall.self.node.kind \in TreeKinds
    /\ lastCall.self.expr # None
    /\ lastCall.ret.kind = "ValueError"

\* C3: x(expr) on a selector over a raw scalar returns the empty list without
\* raising, evaluates nothing, and leaves every xpathContext's context node
\* (and every other part of the documents) as it was.
C3_ScalarDegradesToEmpty ==
    [][\A k \in 1..(1 + MaxList), xpath \in Queries :
          (Query(k, xpath) /\ Held[k].node.kind \in ScalarKinds)
              => /\ cur' = <<>>
                 /\ lastCall'.ret = Returned
                 /\ lastCall'.evals = <<>>
                 /\ docs' = docs
                 /\ cache' = cache]_vars

C3_Witness ==
    /\ lastCall.op = "x"
    /\ lastCall.self.node.kind \in ScalarKinds
    /\ lastCall.xpath = Malformed
    /\ lastCall.ret = Returned
    /\ cur = <<>>

\* The Libxml2Document objects parsed from response r by factory f.
ParsedFrom(r, f) ==
    {d \in 1..Len(docs) : docs[d].response = r /\ docs[d].factory = f}

\* C4: with getlibxml2doc on the response, however many root selectors of one
\* variant are constructed from the response and whatever queries follow, the
\* response is parsed once per variant, and all those selectors (roots and
\* query results) reference that one Libxml2Document.
C4_OneParsePerSource ==
    accessor =>
        \A r \in Responses, cls \in Variants :
            LET mine == {k \in 1..Len(Held) :
                            Held[k].response = r /\ Held[k].cls = cls /\ Held[k].doc # 0}
            IN /\ Cardinality(ParsedFrom(r, xmlDoc_factory(cls))) <= 1
               /\ mine # {} => Cardinality(ParsedFrom(r, xmlDoc_factory(cls))) = 1
               /\ \A k \in mine : Held[k].doc \in ParsedFrom(r, xmlDoc_factory(cls))

C4_Witness ==
    /\ accessor
    /\ Len(roots) = 2
    /\ roots[1].from = "response"
    /\ roots[2].from = "response"
    /\ roots[1].sel.cls = roots[2].sel.cls
    /\ roots[1].sel.doc = roots[2].sel.doc
    /\ Len(cur) = 2
    /\ cur[1].response \in Responses
    /\ cur[1].expr = "//b"
    /\ cur[1].node = DocNode

\* C5: list.x(q2), q2 well-formed, is the concatenation, in the order of the
\* elements, of q2 evaluated relative to each element's own node, each
\* sub-result in its own order.
RECURSIVE ChainedNodes(_, _)
ChainedNodes(list, xpath) ==
    IF list = <<>> THEN <<>>
    ELSE (IF Head(list).node.kind \in TreeKinds
          THEN ResultNodes(xpathEval(Head(list).node, xpath))
          ELSE <<>>) \o ChainedNodes(Tail(list), xpath)

C5_ListQueryIsFlattenedChain ==
    (/\ lastCall.op = "list.x"
     /\ lastCall.xpath # Malformed
     /\ lastCall.ret = Returned)
        => [i \in 1..Len(cur) |-> cur[i].node] = ChainedNodes(lastCall.arg, lastCall.xpath)

\* C6: every selector reached by queries from the root selector has the class
\* of the root, and its Libxml2Document was parsed by that class's factory.
C6_VariantSticky ==
    \A k \in 1..Len(Held) :
        /\ Held[k].cls = roots[1].sel.cls
        /\ Held[k].doc # 0 =>
               docs[Held[k].doc].factory = xmlDoc_factory(roots[1].sel.cls)

C6_Witness ==
    /\ lastCall.op = "x"
    /\ lastCall.self.expr # None
    /\ Len(cur) = 2
    /\ cur[1].cls = "XmlXPathSelector"
    /\ cur[2].doc # roots[1].sel.doc

\* C7: S.x(q), S over a tree node and q well-formed, returns one selector per
\* node of a node-set result, the i-th over the i-th node, and one selector
\* over the scalar for a scalar result.
C7_OneSelectorPerResultNode ==
    QueriedTreeNode =>
        /\ Len(cur) = Len(ResultNodes(lastCall.res))
        /\ lastCall.res.kind = "scalar" => Len(cur) = 1
        /\ \A i \in 1..Len(cur) : cur[i].node = ResultNodes(lastCall.res)[i]

\* C8: a root selector constructed from any text, the empty string included,
\* has a Libxml2Document of its own, shared with no other root, and the
\* document node as its node; no selector lacks a document or a node.
C8_TextRootHasOwnDocument ==
    /\ \A i \in 1..Len(roots) :
           roots[i].from = "text" =>
               /\ roots[i].sel.doc \in 1..Len(docs)
               /\ roots[i].sel.node = DocNode
               /\ \A j \in 1..Len(roots) : j # i => roots[j].sel.doc # roots[i].sel.doc
    /\ \A k \in 1..Len(Held) : Held[k].doc # 0 /\ Held[k].node # Unset

\* C9: single-threaded, every evaluation a call makes runs with the node of
\* the selector being queried as the context node, whatever the earlier calls
\* left in the xpathContext.
C9_EvaluatedAtOwnNode ==
    \A i \in 1..Len(lastCall.evals) : lastCall.evals[i].ctx = lastCall.evals[i].node

C9_Witness ==
    /\ lastCall.op = "list.x"
    /\ Len(docs) = 1
    /\ Len(lastCall.evals) = 2
    /\ lastCall.evals[1].node # lastCall.evals[2].node
    /\ lastCall.evals[2].ctx = lastCall.evals[2].node

\* C10: x takes no lock, so with the steps of two threads interleaved freely
\* an evaluation can run with the other thread's node as context node
\* (C10_Witness); when the caller lets one call run at a time, every
\* evaluation runs with the node of its own selector.
C10_SerializedCallsAreSafe ==
    serialized =>
        \A t \in Threads :
            thr[t].res.kind # "none" => thr[t].ctx = thr[t].self.node

C10_Witness ==
    /\ ~serialized
    /\ \E t \in Threads, u \in Threads :
          /\ t # u
          /\ thr[t].res.kind # "none"
          /\ thr[u].pc \in {"eval", "wrap", "done"}
          /\ thr[t].self.doc = thr[u].self.doc
          /\ thr[t].self.node # thr[u].self.node
          /\ thr[t].ctx = thr[u].self.node
====
